---- MODULE Spec2Model ----
(***************************************************************************)
(* Model of src/src/models/training.py: the ranking-metrics functions of   *)
(* class Evaluation (calculate_ranks, average precision, nDCG, confusion   *)
(* matrix metrics, mean reciprocal rank), the harness compute_metrics with *)
(* its result log, and the two search loops built on it.                   *)
(*                                                                         *)
(* Real numbers are exact fractions [n, d] in lowest terms; a call that    *)
(* raises is a value whose field fault names the exception.                *)
(***************************************************************************)
EXTENDS Integers, Sequences, FiniteSets, TLC

\* ------------------------------------------------------------------ bounds
MaxRows == 2
MaxGrade == 3
MaxK == 2
MaxFeatures == 2
MaxTrials == 2
MaxCalls == 2

\* ------------------------------------------------------- program constants
\* default of mean_reciprocal_rank's parameter threshold
DefaultThreshold == 3
\* the decision threshold 0.5 of metrics(), in tenths
Half == 5

QIDs == {1, 2}
Confidences == {Half - 1, Half}
Grades == 0..MaxGrade
Thresholds == 0..DefaultThreshold
\* the values of metrics' k: None (-1) or a number of rows per query
Ks == {-1} \cup 0..MaxK

VARIABLES
    results,    \* the scored result set: a sequence of rows (its position is the row's index label)
    op,         \* the function of the metrics engine that was applied to results ("none": not yet)
    threshold,  \* mean_reciprocal_rank's argument
    k,          \* metrics' argument k (-1 stands for None)
    srt,        \* what sort_values('confidence') returned, per qID (0: for the whole set)
    ranks,      \* calculate_ranks' return value
    ret,        \* the scalar return value, or the exception raised
    cm,         \* metrics' confusion matrix and return tuple
    returned,   \* what the compute_metrics calls made on results returned, in call order
    log,        \* self.results: the result log, a sequence of records
    disk,       \* the file previous_results: whether it exists, and the table it holds
    loaded,     \* the log as __init__ left it
    pc,         \* where the harness is: idle, inside feature_selection, inside hyperparameter_optimization, ...
    evals,      \* every compute_metrics call so far: caller, arguments, outcome
    fs,         \* the locals of feature_selection
    hpo         \* the locals of hyperparameter_optimization

engine == <<results, op, threshold, k, srt, ranks, ret, cm, returned>>
harness == <<log, disk, loaded, pc, evals, fs, hpo>>
vars == <<results, op, threshold, k, srt, ranks, ret, cm, returned,
          log, disk, loaded, pc, evals, fs, hpo>>

\* ---------------------------------------------------------------- numbers
RECURSIVE GCD(_, _)
GCD(a, b) == IF b = 0 THEN a ELSE GCD(b, a % b)

\* the float n/d (d > 0, n >= 0)
Frac(n, d) == LET g == GCD(n, d) IN [fault |-> "none", n |-> n \div g, d |-> d \div g]
Raise(e) == [fault |-> e, n |-> 0, d |-> 1]
NaN == [fault |-> "nan", n |-> 0, d |-> 1]
Zero == Frac(0, 1)
IsValue(x) == x.fault = "none"
IsNaN(x) == x.fault = "nan"
Raised(x) == x.fault \notin {"none", "nan"}

\* a + b in a loop body: an exception raised while computing b leaves the loop
Add(a, b) ==
    IF Raised(a) THEN a
    ELSE IF Raised(b) THEN b
    ELSE Frac(a.n * b.d + b.n * a.d, a.d * b.d)

\* x / m for a Python int or numpy float x and an int m
DivInt(x, m) ==
    IF Raised(x) THEN x
    ELSE IF m = 0 THEN Raise("ZeroDivisionError")
    ELSE Frac(x.n, x.d * m)

Leq(a, b) == a.n * b.d <= b.n * a.d
InUnit(x) == IsValue(x) /\ 0 <= x.n /\ x.n <= x.d /\ x.d > 0

RECURSIVE SumSeq(_)
SumSeq(s) == IF s = <<>> THEN Zero ELSE Add(SumSeq(SubSeq(s, 1, Len(s) - 1)), s[Len(s)])

Min(S) == CHOOSE x \in S : \A y \in S : x <= y

\* ------------------------------------------------------------ data frames
Row == [confidence : Confidences, qID : QIDs, relevant : Grades]

\* qIDs are labels: only their equality and order of first appearance matter,
\* so a result set names its queries 1, 2, ... in order of first appearance
Canonical(rows) ==
    \A i \in DOMAIN rows :
        rows[i].qID <= 1 + Cardinality({rows[j].qID : j \in 1..(i - 1)})

ResultSets ==
    UNION {{rows \in [1..n -> Row] : Canonical(rows)} : n \in 0..MaxRows}

\* a DataFrame row keeps its index label
Frame(rows) ==
    [i \in DOMAIN rows |->
        [idx |-> i, confidence |-> rows[i].confidence, qID |-> rows[i].qID,
         relevant |-> rows[i].relevant, rank |-> 0]]

\* results['qID'].unique(): in order of first appearance
RECURSIVE unique(_)
unique(df) ==
    IF df = <<>> THEN <<>>
    ELSE LET u == unique(SubSeq(df, 1, Len(df) - 1))
             q == df[Len(df)].qID
         IN IF \E i \in DOMAIN u : u[i] = q THEN u ELSE Append(u, q)

QSet(df) == {df[i].qID : i \in DOMAIN df}

\* results[results['qID'] == qID]
Group(df, q) == SelectSeq(df, LAMBDA r : r.qID = q)

Perms(n) == {p \in [1..n -> 1..n] : \A i, j \in 1..n : i # j => p[i] # p[j]}

\* df.sort_values('confidence', ascending=False): pandas' default kind is
\* 'quicksort', which is not stable, so rows of equal confidence may come out
\* in any order; the operator is the set of frames the sort may return
sort_values_confidence(df) ==
    {[i \in DOMAIN df |-> df[p[i]]] : p \in
        {p \in Perms(Len(df)) :
            \A i, j \in DOMAIN df : i < j => df[p[i]].confidence >= df[p[j]].confidence}}

\* ranks.sort_values('relevant', ascending=False), same default kind
sort_values_relevant(df) ==
    {[i \in DOMAIN df |-> df[p[i]]] : p \in
        {p \in Perms(Len(df)) :
            \A i, j \in DOMAIN df : i < j => df[p[i]].relevant >= df[p[j]].relevant}}

\* ---------------------------------------------------------- calculate_ranks
\* lines 338-341, applied to the frame `sorted` that line 337 produced; the
\* position in the returned sequence is the new index 1..R
calculate_ranks(sorted) ==
    SelectSeq([i \in DOMAIN sorted |-> [sorted[i] EXCEPT !.rank = i]],
              LAMBDA r : r.relevant >= 1)

\* ------------------------------------------------------ mean_reciprocal_rank
\* a variant that takes the best row of either tier
reciprocal_rank_either_tier(sorted, t) ==
    LET rk == calculate_ranks(sorted)
        sel == SelectSeq(rk, LAMBDA r : r.relevant >= t - 1)
    IN  IF sel = <<>> THEN Raise("TypeError")
        ELSE LET first == CHOOSE i \in DOMAIN sel : \A j \in DOMAIN sel : sel[i].rank <= sel[j].rank
             IN Frac(1, sel[first].rank)

\* a variant in which a query with an empty tier contributes 0
reciprocal_rank_or_zero(sorted, t) ==
    LET rk == calculate_ranks(sorted)
        hi == SelectSeq(rk, LAMBDA r : r.relevant >= t)
        sel == IF Len(hi) > 0 THEN hi ELSE SelectSeq(rk, LAMBDA r : r.relevant >= t - 1)
    IN  IF sel = <<>> THEN Zero
        ELSE LET first == CHOOSE i \in DOMAIN sel : \A j \in DOMAIN sel : sel[i].rank <= sel[j].rank
             IN Frac(1, sel[first].rank)

\* one iteration of the loop of lines 459-466, for the query whose sorted rows are `sorted`
reciprocal_rank(sorted, t) ==
    LET rk == calculate_ranks(sorted)
        hi == SelectSeq(rk, LAMBDA r : r.relevant >= t)
        sel == IF Len(hi) > 0 THEN hi ELSE SelectSeq(rk, LAMBDA r : r.relevant >= t - 1)
    IN  IF sel = <<>> THEN Raise("TypeError")
        ELSE LET first == CHOOSE i \in DOMAIN sel : \A j \in DOMAIN sel : sel[i].rank <= sel[j].rank
             IN Frac(1, sel[first].rank)

\* the choices the per-query sorts leave open: one sorted frame per qID
SortChoices(df) ==
    LET all == UNION {sort_values_confidence(Group(df, q)) : q \in QSet(df)}
    IN {c \in [QSet(df) -> all] : \A q \in QSet(df) : c[q] \in sort_values_confidence(Group(df, q))}

mean_reciprocal_rank(df, c, t) ==
    LET qIDs == unique(df)
    IN DivInt(SumSeq([i \in DOMAIN qIDs |-> reciprocal_rank(c[qIDs[i]], t)]), Len(qIDs))

\* --------------------------------------------------- average precision (MAP)
\* a variant that guards the empty case and returns 0
average_precision_score_guarded(sorted) ==
    LET rk == calculate_ranks(sorted)
    IN IF rk = <<>> THEN Frac(0, 1)
       ELSE DivInt(SumSeq([i \in DOMAIN rk |-> Frac(i, rk[i].rank)]), Len(rk))

\* lines 354-357 on the ranks of one query
average_precision_score(sorted) ==
    LET rk == calculate_ranks(sorted)
    IN DivInt(SumSeq([i \in DOMAIN rk |-> Frac(i, rk[i].rank)]), Len(rk))

mean_average_precision_score(df, c) ==
    LET qIDs == unique(df)
    IN DivInt(SumSeq([i \in DOMAIN qIDs |-> average_precision_score(c[qIDs[i]])]), Len(qIDs))

\* -------------------------------------------------------------------- nDCG
\* 1000 / log2(x) for x = 2, 3, ...: the discount np.log2 yields, to three decimals
InvLog2Table == <<1000, 631, 500, 431, 387, 356, 333, 315, 301, 289>>
InvLog2(x) == InvLog2Table[x - 1]

RECURSIVE Pow2(_)
Pow2(g) == IF g = 0 THEN 1 ELSE 2 * Pow2(g - 1)

\* 2 ** data['relevant'] - 1
Gain(g) == Pow2(g) - 1

RECURSIVE SumInt(_)
SumInt(s) == IF s = <<>> THEN 0 ELSE SumInt(SubSeq(s, 1, Len(s) - 1)) + s[Len(s)]

\* the loop of lines 425-427 over `byGrade`, the ranks sorted by grade
\* (reset_index numbers them from 0, so position i is index i - 1)
dcg_of(byGrade) ==
    SumInt([i \in DOMAIN byGrade |-> Gain(byGrade[i].relevant) * InvLog2(byGrade[i].rank + 1)])

\* a variant that takes the 0-based index for the 1-based position
idcg_of_shifted(byGrade) ==
    SumInt([i \in DOMAIN byGrade |-> Gain(byGrade[i].relevant) * InvLog2((i + 1) + 1)])

idcg_of(byGrade) ==
    SumInt([i \in DOMAIN byGrade |-> Gain(byGrade[i].relevant) * InvLog2(((i - 1) + 1) + 1)])

\* line 428
ndcg_of(byGrade) ==
    IF idcg_of(byGrade) = 0 THEN Raise("ZeroDivisionError")
    ELSE Frac(dcg_of(byGrade), idcg_of(byGrade))

\* the values the call may return: one per outcome of the sort by grade
normalized_discounted_cumulative_gain(sorted) ==
    {ndcg_of(byGrade) : byGrade \in sort_values_relevant(calculate_ranks(sorted))}

\* one value per query, each among those the query's call may return
NdcgChoices(df, c) ==
    LET all == UNION {normalized_discounted_cumulative_gain(c[q]) : q \in QSet(df)}
    IN {v \in [QSet(df) -> all] :
            \A q \in QSet(df) : v[q] \in normalized_discounted_cumulative_gain(c[q])}

mean_normalized_discounted_cumulative_gain_score(df, v) ==
    LET qIDs == unique(df)
    IN DivInt(SumSeq([i \in DOMAIN qIDs |-> v[qIDs[i]]]), Len(qIDs))

\* ----------------------------------------------------------------- metrics
None == -1

\* sorted.groupby('qID').head(kk): a row stays when fewer than kk rows of its
\* group precede it
head_per_group(sorted, kk) ==
    LET keep(i) == Cardinality({j \in 1..(i - 1) : sorted[j].qID = sorted[i].qID}) < kk
        RECURSIVE Take(_)
        Take(n) == IF n = 0 THEN <<>>
                   ELSE IF keep(n) THEN Append(Take(n - 1), sorted[n]) ELSE Take(n - 1)
    IN Take(Len(sorted))

Count(df, P(_)) == Cardinality({i \in DOMAIN df : P(df[i])})

\* a variant that compares with > where the code has >=
metrics_of_strict(df) ==
    LET tp == Count(df, LAMBDA r : r.confidence > Half /\ r.relevant >= 1)
        fp == Count(df, LAMBDA r : r.confidence > Half /\ r.relevant = 0)
        tn == Count(df, LAMBDA r : r.confidence < Half /\ r.relevant = 0)
        fn == Count(df, LAMBDA r : r.confidence < Half /\ r.relevant >= 1)
        accuracy == IF tp + fp + tn + fn = 0 THEN Raise("ZeroDivisionError")
                    ELSE Frac(tp + tn, tp + fp + tn + fn)
        precision == IF tp + fp = 0 THEN NaN ELSE Frac(tp, tp + fp)
        recall == IF tp + fn = 0 THEN NaN ELSE Frac(tp, tp + fn)
        f_score == IF IsNaN(precision) \/ IsNaN(recall) THEN NaN
                   ELSE IF precision.n * recall.d + recall.n * precision.d = 0 THEN NaN
                   ELSE Frac(2 * precision.n * recall.n,
                             precision.n * recall.d + recall.n * precision.d)
    IN [tp |-> tp, fp |-> fp, tn |-> tn, fn |-> fn,
        accuracy |-> accuracy, precision |-> precision, recall |-> recall, f_score |-> f_score]

\* lines 392-410 on the rows `df` that line 390 left
metrics_of(df) ==
    LET tp == Count(df, LAMBDA r : r.confidence >= Half /\ r.relevant >= 1)
        fp == Count(df, LAMBDA r : r.confidence >= Half /\ r.relevant = 0)
        tn == Count(df, LAMBDA r : r.confidence < Half /\ r.relevant = 0)
        fn == Count(df, LAMBDA r : r.confidence < Half /\ r.relevant >= 1)
        accuracy == IF tp + fp + tn + fn = 0 THEN Raise("ZeroDivisionError")
                    ELSE Frac(tp + tn, tp + fp + tn + fn)
        precision == IF tp + fp = 0 THEN NaN ELSE Frac(tp, tp + fp)
        recall == IF tp + fn = 0 THEN NaN ELSE Frac(tp, tp + fn)
        f_score == IF IsNaN(precision) \/ IsNaN(recall) THEN NaN
                   ELSE IF precision.n * recall.d + recall.n * precision.d = 0 THEN NaN
                   ELSE Frac(2 * precision.n * recall.n,
                             precision.n * recall.d + recall.n * precision.d)
    IN [tp |-> tp, fp |-> fp, tn |-> tn, fn |-> fn,
        accuracy |-> accuracy, precision |-> precision, recall |-> recall, f_score |-> f_score]

\* --------------------------------------------------------- compute_metrics
\* lines 294-298 and 325: the first exception raised, or the pair returned
Outcome(mrr, map, ndcg, m, k_m) ==
    IF Raised(mrr) THEN [fault |-> mrr.fault, MRR |-> Zero, nDCG |-> Zero]
    ELSE IF Raised(map) THEN [fault |-> map.fault, MRR |-> Zero, nDCG |-> Zero]
    ELSE IF Raised(ndcg) THEN [fault |-> ndcg.fault, MRR |-> Zero, nDCG |-> Zero]
    ELSE IF Raised(m.accuracy) THEN [fault |-> m.accuracy.fault, MRR |-> Zero, nDCG |-> Zero]
    ELSE IF Raised(k_m.accuracy) THEN [fault |-> k_m.accuracy.fault, MRR |-> Zero, nDCG |-> Zero]
    ELSE [fault |-> "none", MRR |-> mrr, nDCG |-> ndcg]

\* what compute_metrics may return on the joined result set df (lines 281-289
\* built it). Within one call the three ranking metrics sort the same
\* per-query frames and meet the same order c; the top-k metrics sort the
\* whole frame (s). Which order a call meets among rows of equal confidence
\* is open, so the operator is the set of outcomes
compute_metrics_outcomes(df, kk) ==
    LET k_ms == {metrics_of(head_per_group(s, kk)) : s \in sort_values_confidence(df)}
    IN UNION {
        {Outcome(mean_reciprocal_rank(df, c, DefaultThreshold),
                 mean_average_precision_score(df, c),
                 mean_normalized_discounted_cumulative_gain_score(df, v),
                 metrics_of(df),
                 k_m) : v \in NdcgChoices(df, c), k_m \in k_ms} :
        c \in SortChoices(df)}

\* the record lines 302-322 build (of its columns: the feature list, the
\* hyperparameters and the two returned metrics)
EvaluationRecord(features, params, o) ==
    [features |-> features, hyperparameters |-> params, MRR |-> o.MRR, nDCG |-> o.nDCG]

\* a variant that appends whatever save_result says
LogAfterAlways(lg, save_result, features, params, o) ==
    IF o.fault = "none"
    THEN Append(lg, EvaluationRecord(features, params, o))
    ELSE lg

\* lines 300-322: self.results after a call whose outcome is o
LogAfter(lg, save_result, features, params, o) ==
    IF o.fault = "none" /\ save_result
    THEN Append(lg, EvaluationRecord(features, params, o))
    ELSE lg

\* line 323: the file after the call
DiskAfter(dk, lg, save_result, features, params, o) ==
    IF o.fault = "none" /\ save_result
    THEN [exists |-> TRUE, rows |-> LogAfter(lg, save_result, features, params, o)]
    ELSE dk

\* the result sets a fitted classifier yields in the harness runs: the rows
\* of one query, one or two of them, with the grades 0 to 3 of the qrels
HarnessInputs ==
    {Frame(rows) : rows \in UNION {[1..n -> [confidence : Confidences, qID : {1},
                                             relevant : 0..DefaultThreshold]] : n \in {1, 2}}}

\* every outcome compute_metrics may have on some classifier output
HarnessOutcomes == UNION {compute_metrics_outcomes(df, MaxK) : df \in HarnessInputs}

\* one compute_metrics call of the harness: its effect on the log and the file
Evaluate(caller, save_result, features, params, o) ==
    /\ log' = LogAfter(log, save_result, features, params, o)
    /\ disk' = DiskAfter(disk, log, save_result, features, params, o)
    /\ evals' = Append(evals, [caller |-> caller, save_result |-> save_result,
                               features |-> features, hyperparameters |-> params,
                               outcome |-> o])

\* ------------------------------------------------------------------- state
NoFS == [features |-> <<>>, added_columns |-> <<>>, performances |-> <<>>,
         current_best |-> [feature |-> 0, performance |-> Zero],
         current_performance |-> Zero, i |-> 0, rounds |-> 0, save_results |-> FALSE]

NoHPO == [trials |-> 0, calls |-> 0, save_result |-> FALSE,
          best_x |-> 0, best_fun |-> Zero, test_mrr |-> Zero]

NoCM == [tp |-> 0, fp |-> 0, tn |-> 0, fn |-> 0,
         accuracy |-> Zero, precision |-> Zero, recall |-> Zero, f_score |-> Zero]

Init ==
    /\ results \in ResultSets
    /\ op = "none"
    /\ threshold = DefaultThreshold
    /\ k = -1
    /\ srt = [q \in {} |-> <<>>]
    /\ ranks = <<>>
    /\ ret = Zero
    /\ cm = NoCM
    /\ returned = <<>>
    /\ log = <<>>
    /\ disk = [exists |-> FALSE, rows |-> <<>>]
    /\ loaded = <<>>
    /\ pc = "engine"
    /\ evals = <<>>
    /\ fs = NoFS
    /\ hpo = NoHPO

CalculateRanks ==
    /\ op = "none"
    /\ \E s \in sort_values_confidence(Frame(results)) :
        /\ srt' = [q \in {0} |-> s]
        /\ ranks' = calculate_ranks(s)
    /\ op' = "calculate_ranks"
    /\ UNCHANGED <<results, threshold, k, ret, cm, returned>>
    /\ UNCHANGED harness

MeanReciprocalRank ==
    /\ op = "none"
    /\ \E t \in Thresholds, c \in SortChoices(Frame(results)) :
        /\ threshold' = t
        /\ srt' = c
        /\ ret' = mean_reciprocal_rank(Frame(results), c, t)
    /\ op' = "mean_reciprocal_rank"
    /\ UNCHANGED <<results, k, ranks, cm, returned>>
    /\ UNCHANGED harness

AveragePrecision ==
    /\ op = "none"
    /\ \E s \in sort_values_confidence(Frame(results)) :
        /\ srt' = [q \in {0} |-> s]
        /\ ret' = average_precision_score(s)
    /\ op' = "average_precision_score"
    /\ UNCHANGED <<results, threshold, k, ranks, cm, returned>>
    /\ UNCHANGED harness

MeanAveragePrecision ==
    /\ op = "none"
    /\ \E c \in SortChoices(Frame(results)) :
        /\ srt' = c
        /\ ret' = mean_average_precision_score(Frame(results), c)
    /\ op' = "mean_average_precision_score"
    /\ UNCHANGED <<results, threshold, k, ranks, cm, returned>>
    /\ UNCHANGED harness

NormalizedDCG ==
    /\ op = "none"
    /\ \E s \in sort_values_confidence(Frame(results)) :
        /\ srt' = [q \in {0} |-> s]
        /\ ret' \in normalized_discounted_cumulative_gain(s)
    /\ op' = "normalized_discounted_cumulative_gain"
    /\ UNCHANGED <<results, threshold, k, ranks, cm, returned>>
    /\ UNCHANGED harness

MeanNormalizedDCG ==
    /\ op = "none"
    /\ \E c \in SortChoices(Frame(results)) :
        /\ srt' = c
        /\ \E v \in NdcgChoices(Frame(results), c) :
            ret' = mean_normalized_discounted_cumulative_gain_score(Frame(results), v)
    /\ op' = "mean_normalized_discounted_cumulative_gain_score"
    /\ UNCHANGED <<results, threshold, k, ranks, cm, returned>>
    /\ UNCHANGED harness

\* metrics(results, k): line 390 when k is given, then lines 392-410
Metrics ==
    /\ op = "none"
    /\ \E kk \in Ks :
        /\ k' = kk
        /\ IF kk = None
           THEN /\ srt' = [q \in {0} |-> Frame(results)]
                /\ ranks' = Frame(results)
           ELSE \E s \in sort_values_confidence(Frame(results)) :
                /\ srt' = [q \in {0} |-> s]
                /\ ranks' = head_per_group(s, kk)
    /\ cm' = metrics_of(ranks')
    /\ ret' = cm'.accuracy
    /\ op' = "metrics"
    /\ UNCHANGED <<results, threshold, returned>>
    /\ UNCHANGED harness

\* compute_metrics(..., save_result=False) on the result set, at most twice
ComputeMetrics ==
    /\ op \in {"none", "compute_metrics"}
    /\ Len(returned) < 2
    /\ \E o \in compute_metrics_outcomes(Frame(results), MaxK) :
        /\ returned' = Append(returned, o)
        /\ Evaluate("direct", FALSE, <<>>, 0, o)
    /\ op' = "compute_metrics"
    /\ UNCHANGED <<results, threshold, k, srt, ranks, ret, cm, loaded, pc, fs, hpo>>

Next ==
    \/ CalculateRanks
    \/ MeanReciprocalRank
    \/ AveragePrecision
    \/ MeanAveragePrecision
    \/ NormalizedDCG
    \/ MeanNormalizedDCG
    \/ Metrics
    \/ ComputeMetrics

Spec == Init /\ [][Next]_vars

\* ======================================================================
\* The harness: __init__, direct calls, feature_selection,
\* hyperparameter_optimization
\* ======================================================================
Lt(a, b) == a.n * b.d < b.n * a.d

\* a record a previous run left in the file
OldRecord == [features |-> <<>>, hyperparameters |-> 0, MRR |-> Frac(1, 1), nDCG |-> Frac(1, 1)]

\* the hyperparameter values of the search space
Params == {1, 2}

\* __init__ (lines 61-67): the log is the file's table, or empty
InitHarness ==
    /\ results = <<>>
    /\ op = "none"
    /\ threshold = DefaultThreshold
    /\ k = MaxK
    /\ srt = [q \in {} |-> <<>>]
    /\ ranks = <<>>
    /\ ret = Zero
    /\ cm = NoCM
    /\ returned = <<>>
    /\ disk \in {[exists |-> FALSE, rows |-> <<>>], [exists |-> TRUE, rows |-> <<OldRecord>>]}
    /\ log = (IF disk.exists THEN disk.rows ELSE <<>>)
    /\ loaded = log
    /\ pc = "idle"
    /\ evals = <<>>
    /\ fs = NoFS
    /\ hpo = NoHPO

DirectCalls == Cardinality({i \in DOMAIN evals : evals[i].caller = "direct"})

\* __call__ / compute_metrics called by the user (lines 100-115); an exception
\* leaves the object as it was
Call ==
    /\ pc = "idle"
    /\ DirectCalls < MaxCalls
    /\ \E save_result \in BOOLEAN, o \in HarnessOutcomes :
        Evaluate("direct", save_result, <<>>, 0, o)
    /\ UNCHANGED <<engine, loaded, pc, fs, hpo>>

\* ------------------------------------------------------- feature_selection
\* lines 205-211; the features are the columns 1..n
FeatureSelection ==
    /\ pc = "idle"
    /\ evals = <<>>
    /\ \E n \in 0..MaxFeatures, save_results \in BOOLEAN :
        fs' = [features |-> [j \in 1..n |-> j],
               added_columns |-> <<>>,
               performances |-> <<>>,
               current_best |-> [feature |-> 0, performance |-> Zero],
               current_performance |-> [fault |-> "none", n |-> -1, d |-> 1],
               i |-> 0, rounds |-> 0, save_results |-> save_results]
    /\ pc' = "fs_while"
    /\ UNCHANGED <<engine, log, disk, loaded, evals, hpo>>

\* line 212, and lines 239-242 when the test fails
FS_While ==
    /\ pc = "fs_while"
    /\ IF Len(fs.added_columns) < Len(fs.features)
       THEN /\ fs' = [fs EXCEPT !.i = 1, !.rounds = @ + 1]
            /\ pc' = "fs_for"
       ELSE /\ pc' = "fs_returned"
            /\ UNCHANGED fs
    /\ UNCHANGED <<engine, log, disk, loaded, evals, hpo>>

InSeq(x, seq) == \E j \in DOMAIN seq : seq[j] = x

\* a variant that tests every feature again, selected or not
FS_SkipNever(feature) == FALSE

\* line 214
FS_Skip(feature) == InSeq(feature, fs.added_columns)

\* a variant that also takes a candidate that only equals the best so far
FS_BetterOrEqual(performance) ==
    /\ ~Lt(performance, fs.current_performance)
    /\ ~Lt(performance, fs.current_best.performance)

\* line 227
FS_Better(performance) ==
    /\ Lt(fs.current_performance, performance)
    /\ Lt(fs.current_best.performance, performance)

\* one iteration of the for loop (lines 213-228)
FS_Candidate ==
    /\ pc = "fs_for"
    /\ fs.i <= Len(fs.features)
    /\ LET feature == fs.features[fs.i] IN
       IF FS_Skip(feature)
       THEN /\ fs' = [fs EXCEPT !.i = @ + 1]
            /\ UNCHANGED <<log, disk, evals, pc>>
       ELSE \E o \in HarnessOutcomes :
            /\ Evaluate("feature_selection", fs.save_results,
                        Append(fs.added_columns, feature), 0, o)
            /\ IF o.fault # "none"
               THEN /\ pc' = "raised"
                    /\ UNCHANGED fs
               ELSE /\ pc' = pc
                    /\ fs' = [fs EXCEPT
                                !.i = @ + 1,
                                !.current_best =
                                    IF FS_Better(o.nDCG)
                                    THEN [feature |-> feature, performance |-> o.nDCG]
                                    ELSE @]
    /\ UNCHANGED <<engine, loaded, hpo>>

\* a variant that appends the previous current_performance
FS_CommitStale ==
    [fs EXCEPT !.current_performance = fs.current_best.performance,
               !.added_columns = Append(@, fs.current_best.feature),
               !.performances = Append(@, fs.current_performance),
               !.current_best = [feature |-> 0, performance |-> Zero]]

\* lines 230-232 and 235
FS_Commit ==
    [fs EXCEPT !.current_performance = fs.current_best.performance,
               !.added_columns = Append(@, fs.current_best.feature),
               !.performances = Append(@, fs.current_best.performance),
               !.current_best = [feature |-> 0, performance |-> Zero]]

\* after the for loop (lines 229-237): commit the best candidate, or break
FS_EndRound ==
    /\ pc = "fs_for"
    /\ fs.i > Len(fs.features)
    /\ IF fs.current_best.feature # 0
       THEN /\ fs' = FS_Commit
            /\ pc' = "fs_while"
       ELSE /\ pc' = "fs_returned"
            /\ UNCHANGED fs
    /\ UNCHANGED <<engine, log, disk, loaded, evals, hpo>>

\* --------------------------------------------- hyperparameter_optimization
\* line 162: the search starts
HyperparameterOptimization ==
    /\ pc = "idle"
    /\ evals = <<>>
    /\ \E trials \in 1..MaxTrials, save_result \in BOOLEAN :
        hpo' = [trials |-> trials, calls |-> 0, save_result |-> save_result,
                best_x |-> 0, best_fun |-> Zero, test_mrr |-> Zero]
    /\ pc' = "hpo_trials"
    /\ UNCHANGED <<engine, log, disk, loaded, evals, fs>>

\* lines 159-160: evaluate calls compute_metrics without save_result (default False)
HPO_TrialSave == FALSE

\* one call of the objective by gp_minimize (lines 157-160, 163); the best
\* point is the first one that reaches the largest MRR
HPO_Trial ==
    /\ pc = "hpo_trials"
    /\ hpo.calls < hpo.trials
    /\ \E x \in Params, o \in HarnessOutcomes :
        /\ Evaluate("trial", HPO_TrialSave, <<>>, x, o)
        /\ IF o.fault # "none"
           THEN /\ pc' = "raised"
                /\ UNCHANGED hpo
           ELSE /\ pc' = pc
                /\ hpo' = [hpo EXCEPT
                            !.calls = @ + 1,
                            !.best_x = IF hpo.calls = 0 \/ Lt(hpo.best_fun, o.MRR) THEN x ELSE @,
                            !.best_fun = IF hpo.calls = 0 \/ Lt(hpo.best_fun, o.MRR)
                                         THEN o.MRR ELSE @]
    /\ UNCHANGED <<engine, loaded, fs>>

\* lines 164-178: the evaluation on the test split with the best parameters
HPO_Final ==
    /\ pc = "hpo_trials"
    /\ hpo.calls = hpo.trials
    /\ \E o \in HarnessOutcomes :
        /\ Evaluate("final", hpo.save_result, <<>>, hpo.best_x, o)
        /\ IF o.fault # "none"
           THEN /\ pc' = "raised"
                /\ UNCHANGED hpo
           ELSE /\ pc' = "hpo_returned"
                /\ hpo' = [hpo EXCEPT !.test_mrr = o.MRR]
    /\ UNCHANGED <<engine, loaded, fs>>

FS_Next == FS_While \/ FS_Candidate \/ FS_EndRound

NextHarness ==
    \/ Call
    \/ FeatureSelection
    \/ FS_While
    \/ FS_Candidate
    \/ FS_EndRound
    \/ HyperparameterOptimization
    \/ HPO_Trial
    \/ HPO_Final

SpecHarness == InitHarness /\ [][NextHarness]_vars

\* feature_selection is straight-line code around compute_metrics: once
\* entered, its next step is taken as long as the evaluations return
SpecHarnessFair == SpecHarness /\ WF_vars(FS_Next)

\* ======================================================================
\* One evaluation on a result set: the ranking metrics on their own, and
\* compute_metrics with either value of save_result on a log that is empty
\* or holds a record of a previous run
\* ======================================================================
InitEvaluation ==
    /\ results \in ResultSets
    /\ op = "none"
    /\ threshold = DefaultThreshold
    /\ k = MaxK
    /\ srt = [q \in {} |-> <<>>]
    /\ ranks = <<>>
    /\ ret = Zero
    /\ cm = NoCM
    /\ returned = <<>>
    /\ disk \in {[exists |-> FALSE, rows |-> <<>>], [exists |-> TRUE, rows |-> <<OldRecord>>]}
    /\ log = (IF disk.exists THEN disk.rows ELSE <<>>)
    /\ loaded = log
    /\ pc = "engine"
    /\ evals = <<>>
    /\ fs = NoFS
    /\ hpo = NoHPO

\* compute_metrics(..., k, save_result) on the result set (lines 294-325)
ComputeMetricsSave ==
    /\ op = "none"
    /\ \E save_result \in BOOLEAN, o \in compute_metrics_outcomes(Frame(results), k) :
        /\ returned' = Append(returned, o)
        /\ Evaluate("direct", save_result, <<>>, 0, o)
    /\ op' = "compute_metrics"
    /\ UNCHANGED <<results, threshold, k, srt, ranks, ret, cm, loaded, pc, fs, hpo>>

NextEvaluation ==
    \/ MeanReciprocalRank
    \/ MeanAveragePrecision
    \/ MeanNormalizedDCG
    \/ ComputeMetricsSave

SpecEvaluation == InitEvaluation /\ [][NextEvaluation]_vars

\* ======================================================================
\* Properties of the metrics engine (checked under Spec)
\* ======================================================================
RECURSIVE SumOver(_, _)
\* the sum of f[x] over the finite set S
SumOver(f, S) ==
    IF S = {} THEN Zero
    ELSE LET x == CHOOSE y \in S : TRUE IN Add(f[x], SumOver(f, S \ {x}))

\* positions (ranks) of the rows of a sorted frame that satisfy P
Positions(sorted, P(_)) == {i \in DOMAIN sorted : P(sorted[i])}

Queries == QSet(Frame(results))

\* the rows the claim considers: tier t if it has a row, else tier t - 1
TierAsClaimed(sorted, t) ==
    IF Positions(sorted, LAMBDA r : r.relevant >= t) # {}
    THEN Positions(sorted, LAMBDA r : r.relevant >= t)
    ELSE Positions(sorted, LAMBDA r : r.relevant >= t - 1)

\* the same among the rows calculate_ranks keeps (relevant >= 1)
TierAmongRelevant(sorted, t) ==
    IF Positions(sorted, LAMBDA r : r.relevant >= 1 /\ r.relevant >= t) # {}
    THEN Positions(sorted, LAMBDA r : r.relevant >= 1 /\ r.relevant >= t)
    ELSE Positions(sorted, LAMBDA r : r.relevant >= 1 /\ r.relevant >= t - 1)

MeanOfBest(tier) ==
    DivInt(SumOver([q \in Queries |-> Frac(1, Min(tier[q]))], Queries), Cardinality(Queries))

\* C1 (as stated): mean_reciprocal_rank averages, over the queries, 1/r for the
\* best rank r among the rows with relevant >= threshold, or, when the query
\* has none, among the rows with relevant >= threshold - 1.
C1_AsStated ==
    (op = "mean_reciprocal_rank" /\ Queries # {}
        /\ \A q \in Queries : TierAsClaimed(srt[q], threshold) # {})
    => ret = MeanOfBest([q \in Queries |-> TierAsClaimed(srt[q], threshold)])

\* C1 (amended): the rows considered are rows with relevant >= 1 only: those
\* with relevant >= threshold if the query has one, otherwise those with
\* relevant >= threshold - 1; when every query has such a row the result is
\* the mean over the queries of 1/r for the best rank r among them, so a
\* lower-tier row is never used when the query has a higher-tier row.
C1_MeanReciprocalRank ==
    (op = "mean_reciprocal_rank" /\ Queries # {}
        /\ \A q \in Queries : TierAmongRelevant(srt[q], threshold) # {})
    => ret = MeanOfBest([q \in Queries |-> TierAmongRelevant(srt[q], threshold)])

\* the query's grade threshold-1 row is ranked first and its grade threshold
\* row second: the result is 1/2, not 1
C1_Witness ==
    /\ op = "mean_reciprocal_rank"
    /\ threshold = DefaultThreshold
    /\ \E q \in Queries :
        /\ Len(srt[q]) = 2
        /\ srt[q][1].relevant = threshold - 1
        /\ srt[q][2].relevant = threshold
    /\ ret = Frac(1, 2)

HasRelevant(df) == \E i \in DOMAIN df : df[i].relevant >= 1

\* C2: when every query has a row with relevant >= 1, MAP and mean nDCG are
\* in [0,1]; so are AP and nDCG of one query (0 <= DCG <= IDCG), and a
\* relevant row's index among the relevant rows never exceeds its rank.
C2_UnitInterval ==
    /\ (op \in {"mean_average_precision_score",
                "mean_normalized_discounted_cumulative_gain_score"}
          /\ Queries # {} /\ \A q \in Queries : HasRelevant(srt[q]))
       => InUnit(ret)
    /\ (op \in {"average_precision_score", "normalized_discounted_cumulative_gain"}
          /\ HasRelevant(srt[0]))
       => /\ InUnit(ret)
          /\ \A i \in DOMAIN calculate_ranks(srt[0]) : i <= calculate_ranks(srt[0])[i].rank

\* a query whose lower grade is ranked above its higher grade: a mean nDCG
\* strictly inside (0,1)
C2_Witness ==
    /\ op = "mean_normalized_discounted_cumulative_gain_score"
    /\ \A q \in Queries : HasRelevant(srt[q])
    /\ \E q \in Queries :
        /\ Len(srt[q]) = 2
        /\ 1 <= srt[q][1].relevant
        /\ srt[q][1].relevant < srt[q][2].relevant
    /\ IsValue(ret) /\ 0 < ret.n /\ ret.n < ret.d

\* C3 (as stated): calculate_ranks gives every row a distinct rank 1..N along
\* non-increasing confidence, rows of equal confidence keep their input order,
\* and it returns the rows with relevant >= 1 in rank order, re-indexed 1..R.
C3_AsStated ==
    op = "calculate_ranks" =>
        LET s == srt[0] IN
        /\ Len(s) = Len(results)
        /\ {s[i].idx : i \in DOMAIN s} = DOMAIN results
        /\ \A i, j \in DOMAIN s : i < j => s[i].confidence >= s[j].confidence
        /\ \A i, j \in DOMAIN s :
            (i < j /\ s[i].confidence = s[j].confidence) => s[i].idx < s[j].idx
        /\ Len(ranks) = Cardinality({i \in DOMAIN results : results[i].relevant >= 1})
        /\ \A i \in DOMAIN ranks :
            /\ ranks[i].relevant >= 1
            /\ s[ranks[i].rank].idx = ranks[i].idx
            /\ results[ranks[i].idx].relevant = ranks[i].relevant
        /\ \A i, j \in DOMAIN ranks : i < j => ranks[i].rank < ranks[j].rank

\* the number of rows metrics evaluates, counted from the input
Evaluated ==
    IF k = None THEN Len(results)
    ELSE LET size == [q \in Queries |-> Len(Group(Frame(results), q))]
             RECURSIVE Total(_)
             Total(S) == IF S = {} THEN 0
                         ELSE LET q == CHOOSE x \in S : TRUE
                              IN (IF size[q] < k THEN size[q] ELSE k) + Total(S \ {q})
         IN Total(Queries)

UnitOrNaN(x) == IsNaN(x) \/ InUnit(x)

\* C4: metrics counts every evaluated row (all rows, or each query's first k
\* by descending confidence) in exactly one of tp, fp, tn, fn; a row with
\* confidence exactly 0.5 is a positive prediction; accuracy, precision,
\* recall and F1 are in [0,1] or NaN, with NaN exactly for the zero denominators.
C4_Metrics ==
    op = "metrics" =>
        /\ cm.tp + cm.fp + cm.tn + cm.fn = Evaluated
        /\ Len(ranks) = Evaluated
        /\ \A i, j \in DOMAIN ranks : i # j => ranks[i].idx # ranks[j].idx
        /\ k # None =>
            \A i \in DOMAIN ranks :
                Cardinality({j \in DOMAIN results :
                                /\ results[j].qID = ranks[i].qID
                                /\ results[j].confidence > ranks[i].confidence}) < k
        /\ cm.tp + cm.fp = Count(ranks, LAMBDA r : r.confidence > Half)
                            + Count(ranks, LAMBDA r : r.confidence = Half)
        /\ cm.tp + cm.fn = Count(ranks, LAMBDA r : r.relevant # 0)
        /\ IsValue(cm.accuracy) =>
            /\ InUnit(cm.accuracy)
            /\ UnitOrNaN(cm.precision) /\ UnitOrNaN(cm.recall) /\ UnitOrNaN(cm.f_score)
            /\ IsNaN(cm.precision) <=> (cm.tp + cm.fp = 0)
            /\ IsNaN(cm.recall) <=> (cm.tp + cm.fn = 0)
            /\ IsNaN(cm.f_score) <=>
                (IsNaN(cm.precision) \/ IsNaN(cm.recall)
                    \/ (cm.precision = Zero /\ cm.recall = Zero))

\* top-1 per query leaves out a row, and a relevant row with confidence
\* exactly 0.5 is the only true positive
C4_Witness ==
    /\ op = "metrics"
    /\ k = 1
    /\ Len(ranks) < Len(results)
    /\ cm.tp = 1
    /\ \A i \in DOMAIN ranks : ranks[i].relevant >= 1 => ranks[i].confidence = Half
    /\ IsValue(cm.f_score)

\* C9: without a row with relevant >= 1, average_precision_score and
\* normalized_discounted_cumulative_gain raise ZeroDivisionError, and so do
\* the two means as soon as one query has no such row.
C9_DivisionByZero ==
    /\ (op \in {"average_precision_score", "normalized_discounted_cumulative_gain"}
          /\ ~HasRelevant(Frame(results)))
       => ret = Raise("ZeroDivisionError")
    /\ (op \in {"mean_average_precision_score",
                "mean_normalized_discounted_cumulative_gain_score"}
          /\ \E q \in Queries : ~HasRelevant(Group(Frame(results), q)))
       => ret = Raise("ZeroDivisionError")

\* the first query has relevant rows, the second has none: the mean still raises
C9_Witness ==
    /\ op = "mean_average_precision_score"
    /\ Cardinality(Queries) = 2
    /\ HasRelevant(Group(Frame(results), 1))
    /\ ~HasRelevant(Group(Frame(results), 2))
    /\ ret = Raise("ZeroDivisionError")

FSEvals == {i \in DOMAIN evals : evals[i].caller = "feature_selection"}

\* the evaluations of the round in progress: the candidates added_columns + [f]
RoundEvals == {i \in FSEvals : Len(evals[i].features) = Len(fs.added_columns) + 1}

Last(seq) == seq[Len(seq)]

\* C5: the selected features are distinct features of the input, the outer
\* loop runs at most |features| rounds (and at most |features| candidate
\* evaluations per round), and a feature_selection that has been entered
\* eventually returns, or stops on the exception of an evaluation.
C5_SelectionBounded ==
    /\ [](/\ \A i, j \in DOMAIN fs.added_columns :
              i # j => fs.added_columns[i] # fs.added_columns[j]
          /\ \A i \in DOMAIN fs.added_columns : InSeq(fs.added_columns[i], fs.features)
          /\ Len(fs.added_columns) <= Len(fs.features)
          /\ fs.rounds <= Len(fs.features)
          /\ fs.i <= Len(fs.features) + 1
          /\ Cardinality(FSEvals) <= fs.rounds * Len(fs.features))
    /\ (pc \in {"fs_while", "fs_for"}) ~> (pc \in {"fs_returned", "raised"})

\* both features were selected, in two rounds
C5_Witness ==
    /\ pc = "fs_returned"
    /\ Len(fs.features) = 2
    /\ Len(fs.added_columns) = 2
    /\ fs.rounds = 2

\* C6: performances is as long as the selection, performances[i] is the nDCG
\* compute_metrics returned for the first i selected features, every value
\* is greater than 0 and the sequence never decreases.
C6_Performances ==
    /\ Len(fs.performances) = Len(fs.added_columns)
    /\ \A i \in DOMAIN fs.performances :
        /\ \E e \in FSEvals :
            /\ evals[e].features = SubSeq(fs.added_columns, 1, i)
            /\ evals[e].outcome.fault = "none"
            /\ evals[e].outcome.nDCG = fs.performances[i]
        /\ Lt(Zero, fs.performances[i])
        /\ i > 1 => Leq(fs.performances[i - 1], fs.performances[i])

\* two features committed, the second with a larger nDCG than the first
C6_Witness ==
    /\ pc = "fs_returned"
    /\ Len(fs.performances) = 2
    /\ Lt(fs.performances[1], fs.performances[2])

Persisting ==
    Cardinality({i \in DOMAIN evals : evals[i].save_result /\ evals[i].outcome.fault = "none"})

\* C7: the log changes only in a compute_metrics call with save_result true,
\* which appends one record and keeps the earlier ones; the log and the file
\* hold the loaded rows plus one row per persisting evaluation that
\* completed; hyperparameter_optimization's trials never save, so it appends
\* at most one record, that of the final evaluation.
C7_LogAppendOnly ==
    /\ [](/\ Len(log) = Len(loaded) + Persisting
          /\ SubSeq(log, 1, Len(loaded)) = loaded
          /\ disk.rows = log
          /\ Persisting > 0 => disk.exists
          /\ \A i \in DOMAIN evals : evals[i].caller = "trial" => ~evals[i].save_result
          /\ pc = "hpo_trials" => log = loaded
          /\ pc = "hpo_returned" =>
                Len(log) = Len(loaded) + (IF hpo.save_result THEN 1 ELSE 0))
    /\ [][log' # log =>
            /\ Len(evals') = Len(evals) + 1
            /\ Last(evals').save_result
            /\ log' = Append(log, EvaluationRecord(Last(evals').features,
                                                   Last(evals').hyperparameters,
                                                   Last(evals').outcome))]_vars

\* after two trials the final evaluation added one record behind the loaded one
C7_Witness ==
    /\ pc = "hpo_returned"
    /\ hpo.trials = 2
    /\ hpo.save_result
    /\ Len(loaded) = 1
    /\ Len(log) = 2
    /\ log[1] = OldRecord
    /\ disk.rows = log

Position(x, seq) == CHOOSE j \in DOMAIN seq : seq[j] = x

\* C10: at the end of a round a feature is committed exactly when a candidate
\* of the round has an nDCG above both current_performance and 0; it is then
\* the first candidate in feature order with the largest nDCG of the round;
\* otherwise the loop stops with added_columns and performances unchanged, so
\* an empty feature list returns two empty lists.
C10_GreedyRound ==
    /\ []((pc = "fs_returned" /\ fs.features = <<>>)
            => (fs.added_columns = <<>> /\ fs.performances = <<>>))
    /\ [][(pc = "fs_for" /\ pc' \in {"fs_while", "fs_returned"}) =>
            LET qualifies == \E e \in RoundEvals :
                                /\ Lt(fs.current_performance, evals[e].outcome.nDCG)
                                /\ Lt(Zero, evals[e].outcome.nDCG)
                committed == fs'.added_columns # fs.added_columns
            IN  /\ Cardinality(RoundEvals) = Len(fs.features) - Len(fs.added_columns)
                /\ committed <=> qualifies
                /\ committed =>
                    /\ pc' = "fs_while"
                    /\ \E e \in RoundEvals :
                        /\ fs'.added_columns = evals[e].features
                        /\ fs'.performances = Append(fs.performances, evals[e].outcome.nDCG)
                        /\ fs'.current_performance = evals[e].outcome.nDCG
                        /\ \A o \in RoundEvals :
                            /\ Leq(evals[o].outcome.nDCG, evals[e].outcome.nDCG)
                            /\ evals[o].outcome.nDCG = evals[e].outcome.nDCG
                                => Position(Last(evals[e].features), fs.features)
                                    <= Position(Last(evals[o].features), fs.features)
                /\ ~committed =>
                    /\ pc' = "fs_returned"
                    /\ fs'.added_columns = fs.added_columns
                    /\ fs'.performances = fs.performances]_vars

\* the second feature beat the first in round one, and round two found no
\* candidate above the committed nDCG
C10_Witness ==
    /\ pc = "fs_returned"
    /\ Len(fs.features) = 2
    /\ fs.added_columns = <<2>>
    /\ fs.rounds = 2
\* ======================================================================
\* Properties of one evaluation (checked under SpecEvaluation)
\* ======================================================================
\* the highest grade among the rows of query q
HighestGrade(q) ==
    LET g == Group(Frame(results), q)
    IN CHOOSE m \in {g[i].relevant : i \in DOMAIN g} :
        \A i \in DOMAIN g : g[i].relevant <= m

\* C11: mean_reciprocal_rank raises when some query's highest grade is below
\* threshold - 1, and returns a value exactly when there is a query and every
\* query has a relevant row of grade >= threshold - 1. compute_metrics calls
\* it first with the default threshold, so on a result set with a query whose
\* highest grade is below 2 the call ends in that exception and the log and
\* the file stay as they were, whatever save_result is, also when every query
\* has a relevant row, for which MAP and mean nDCG are values.
C11_EmptyTierAborts ==
    /\ op = "mean_reciprocal_rank" =>
        /\ (\E q \in Queries : HighestGrade(q) < threshold - 1) => Raised(ret)
        /\ IsValue(ret) <=>
            /\ Queries # {}
            /\ \A q \in Queries : HighestGrade(q) >= 1 /\ HighestGrade(q) >= threshold - 1
    /\ (op = "compute_metrics" /\ \E q \in Queries : HighestGrade(q) < DefaultThreshold - 1) =>
        /\ Len(evals) = 1
        /\ evals[1].outcome.fault = "TypeError"
        /\ log = loaded
        /\ disk.rows = loaded
        /\ disk.exists <=> (loaded # <<>>)
        /\ (\A q \in Queries : HighestGrade(q) >= 1) =>
            \A c \in SortChoices(Frame(results)) :
                /\ IsValue(mean_average_precision_score(Frame(results), c))
                /\ \A v \in NdcgChoices(Frame(results), c) :
                    IsValue(mean_normalized_discounted_cumulative_gain_score(Frame(results), v))

\* a call with save_result true on a query whose relevant rows are all of
\* grade 1 raised, and the log still holds the loaded record only
C11_Witness ==
    /\ op = "compute_metrics"
    /\ Cardinality(Queries) = 1
    /\ \A q \in Queries : HighestGrade(q) = 1
    /\ Len(evals) = 1
    /\ evals[1].save_result
    /\ evals[1].outcome.fault = "TypeError"
    /\ log = <<OldRecord>>
====
